---- MODULE Spec2Model ----
(***************************************************************************)
(* A model of firmware/DaisyGuitar.cpp: the USB serial command protocol    *)
(* (UsbCallback, ProcessSerial), the parameter store it writes and the     *)
(* channel, mixer and output stages of AudioCallback that read it.         *)
(*                                                                         *)
(* A char is a one-character string; NUL and LF are the two tokens "NUL"   *)
(* and "LF".  A float is a record [k, v]: k = "fin" with v the value in    *)
(* hundredths (truncated toward zero), k = "inf" with v the sign, or       *)
(* k = "nan".  Truncation to hundredths commutes with every clamp of the   *)
(* program, whose bounds are all whole hundredths.                         *)
(***************************************************************************)
EXTENDS Integers, Sequences, FiniteSets, TLC

VARIABLES
    params,          \* the parameter globals, one record field per global
    serial_buf,      \* char serial_buf[128]
    buf_pos,         \* int buf_pos
    new_data_ready,  \* volatile bool new_data_ready
    pc,              \* where the main loop stands inside ProcessSerial
    scan_i,          \* index of the next byte sscanf reads from serial_buf
    scanned,         \* the bytes sscanf has read so far
    wire,            \* bytes the host has sent and USB has not yet delivered
    sent,            \* history: what the host sends in this run
    commits,         \* history: the texts a terminator has committed
    last,            \* history: what the last finished ProcessSerial scanned, matched and stored
    writes,          \* history: the <<field, value>> stores ProcessSerial made
    apc,             \* where AudioCallback stands in its loop body
    blk,             \* AudioCallback's size argument and its loop index i
    ch1_in, ch2_in,  \* the locals ch1_in, ch2_in
    ch1, ch2,        \* the locals ch1, ch2
    piped,           \* history: <<ch1, ch2>> as the channel stages left them
    mixed,           \* history: <<ch1, ch2>> as the mixer stages left them
    out,             \* the pair out[0][i], out[1][i] of the sample in progress
    ext,             \* what the overdrive, filter and chorus objects may return in this run
    del1, del2,      \* the delay lines del1, del2, as far as their interface shows them
    calls1, calls2,  \* history: the calls a channel made on its filter and delay line
    bled             \* history: <<ch1, ch2>> as the bleed stage left them

serialVars == <<serial_buf, buf_pos, new_data_ready, pc, scan_i, scanned,
                wire, sent, commits, last, writes>>
audioVars == <<apc, blk, ch1_in, ch2_in, ch1, ch2, piped, mixed, out,
               ext, del1, del2, calls1, calls2, bled>>
vars == <<params, serialVars, audioVars>>

\* The element of a one-element set.  Only({e(x) : x \in {v}}) is e(v) with
\* v worked out once, however often e uses it.
Only(S) == CHOOSE x \in S : TRUE

Min2(a, b) == Only({IF x < y THEN x ELSE y : x \in {a}, y \in {b}})
Max2(a, b) == Only({IF x > y THEN x ELSE y : x \in {a}, y \in {b}})

-----------------------------------------------------------------------------
(* Floats *)

SCALE == 100

\* Finite values are kept within this magnitude (in hundredths), far above
\* every clamp bound and every mode: a longer digit string saturates here
\* and an arithmetic result beyond it overflows to an infinity.
SatCap == 1000000000
Sat(n) == IF n > SatCap THEN SatCap ELSE n

Fin(n) == [k |-> "fin", v |-> n]
PInf == [k |-> "inf", v |-> 1]
NInf == [k |-> "inf", v |-> -1]
NaN == [k |-> "nan", v |-> 0]

IsNaN(a) == a.k = "nan"
IsFinite(a) == a.k = "fin"

\* The order of the non-NaN floats: an infinity lies beyond every finite v.
Key(a) == IF a.k = "inf" THEN a.v * 2000000000 ELSE a.v

FLt(a, b) == ~IsNaN(a) /\ ~IsNaN(b) /\ Key(a) < Key(b)
FGt(a, b) == FLt(b, a)

\* fmax and fmin of <math.h>: a NaN argument yields the other argument.
FMax(a, b) ==
    Only({IF IsNaN(x) THEN y ELSE IF IsNaN(y) THEN x ELSE IF FLt(x, y) THEN y ELSE x :
          x \in {a}, y \in {b}})
FMin(a, b) ==
    Only({IF IsNaN(x) THEN y ELSE IF IsNaN(y) THEN x ELSE IF FLt(y, x) THEN y ELSE x :
          x \in {a}, y \in {b}})

TruncDiv(n, d) == IF n >= 0 THEN n \div d ELSE -((-n) \div d)
Abs(n) == IF n < 0 THEN -n ELSE n
Sign(a) == IF a.v > 0 THEN 1 ELSE IF a.v < 0 THEN -1 ELSE 0

\* A finite result, or the infinity it overflows to.
Overflow(n) == IF n > SatCap THEN PInf ELSE IF n < -SatCap THEN NInf ELSE Fin(n)

FNeg(a) == [a EXCEPT !.v = -a.v]

FAddV(a, b) ==
    IF IsNaN(a) \/ IsNaN(b) THEN NaN
    ELSE IF a.k = "inf" /\ b.k = "inf" THEN (IF a.v = b.v THEN a ELSE NaN)
    ELSE IF a.k = "inf" THEN a
    ELSE IF b.k = "inf" THEN b
    ELSE Overflow(a.v + b.v)

FAdd(a, b) == Only({FAddV(x, y) : x \in {a}, y \in {b}})

FSub(a, b) == FAdd(a, FNeg(b))

\* x * y / SCALE for magnitudes x >= y, truncated; a large x is split into
\* its units and hundredths, which keeps every product inside the integers.
MulMag(x, y) ==
    IF x < 40000 THEN (x * y) \div SCALE
    ELSE IF y > 0 /\ x \div SCALE > SatCap \div y THEN SatCap + 1
    ELSE (x \div SCALE) * y + ((x % SCALE) * y) \div SCALE

FMulV(a, b) ==
    IF IsNaN(a) \/ IsNaN(b) THEN NaN
    ELSE IF a.k = "inf" \/ b.k = "inf"
    THEN (IF Sign(a) * Sign(b) = 0 THEN NaN ELSE IF Sign(a) * Sign(b) > 0 THEN PInf ELSE NInf)
    ELSE Overflow(Sign(a) * Sign(b) * MulMag(Max2(Abs(a.v), Abs(b.v)), Min2(Abs(a.v), Abs(b.v))))

FMul(a, b) == Only({FMulV(x, y) : x \in {a}, y \in {b}})

\* a / b for a finite divisor b that is not zero.
FDivV(a, b) ==
    IF IsNaN(a) THEN NaN
    ELSE IF a.k = "inf" THEN (IF Sign(a) * Sign(b) > 0 THEN PInf ELSE NInf)
    ELSE IF Abs(a.v) > SatCap \div SCALE THEN Overflow(TruncDiv(a.v, Abs(b.v)) * SCALE * Sign(b))
    ELSE Fin(TruncDiv(a.v * SCALE, Abs(b.v)) * Sign(b))

FDiv(a, b) == Only({FDivV(x, y) : x \in {a}, y \in {b}})

One == Fin(SCALE)
Half == Fin(SCALE \div 2)
Zero == Fin(0)

\* A clamp that forgets the upper bound.
FClampLowOnly(in, lo, hi) == FMax(in, lo)

\* daisysp's fclamp(in, min, max) as ProcessSerial calls it.
FClamp(in, lo, hi) == FMin(FMax(in, lo), hi)

-----------------------------------------------------------------------------
(* Characters and sscanf(serial_buf, "%63[^:]:%f", param_name, &val) *)

NUL == "NUL"
LF == "LF"

SERIAL_BUF_SIZE == 128
BUF_LIMIT == 127
NAME_WIDTH == 63

Digits == <<"0", "1", "2", "3", "4", "5", "6", "7", "8", "9">>
IsDigit(c) == \E d \in 1..10 : Digits[d] = c
DigitVal(c) == (CHOOSE d \in 1..10 : Digits[d] = c) - 1
IsSpace(c) == c \in {" ", "\t", "\r"}


RECURSIVE RunLen(_, _)
\* The number of consecutive digits of t from index i on.
RunLen(t, i) == IF i <= Len(t) /\ IsDigit(t[i]) THEN 1 + RunLen(t, i + 1) ELSE 0

RECURSIVE DigitsVal(_, _, _)
\* The value of the n digits of t from index i on, saturating.
DigitsVal(t, i, n) ==
    IF n = 0 THEN 0
    ELSE Only({IF v >= SatCap \div 10 THEN SatCap \div 10 ELSE v * 10 + DigitVal(t[i + n - 1]) :
               v \in {DigitsVal(t, i, n - 1)}})

RECURSIVE Pow10(_)
Pow10(e) == IF e = 0 THEN 1 ELSE 10 * Pow10(e - 1)

\* mant * 10^e in whole units, truncated toward zero and saturated.
Scale10(mant, e) ==
    IF mant = 0 THEN 0
    ELSE IF e >= 0 THEN (IF e > 9 THEN SatCap ELSE IF mant >= SatCap \div Pow10(e) THEN SatCap ELSE mant * Pow10(e))
    ELSE IF e < -9 THEN 0 ELSE mant \div Pow10(-e)

RECURSIVE SkipSpace(_, _)
SkipSpace(t, i) == IF i <= Len(t) /\ IsSpace(t[i]) THEN SkipSpace(t, i + 1) ELSE i

\* Whether the word w stands in t at index i.
WordAt(t, i, w) == i + Len(w) - 1 <= Len(t) /\ SubSeq(t, i, i + Len(w) - 1) = w

\* The decimal exponent that stands at index i3 ('e', a sign, digits), or 0.
ScanExp(t, i3) ==
    LET hasE == i3 <= Len(t) /\ t[i3] \in {"e", "E"}
        esigned == hasE /\ i3 + 1 <= Len(t) /\ t[i3 + 1] \in {"+", "-"}
        esgn == IF esigned /\ t[i3 + 1] = "-" THEN -1 ELSE 1
        i4 == IF esigned THEN i3 + 2 ELSE i3 + 1
    IN  IF ~hasE THEN 0
        ELSE Only({esgn * Min2(DigitsVal(t, i4, n3), 99) : n3 \in {RunLen(t, i4)}})

\* The number whose n1 integer digits stand at i2, followed, when n2 >= 0,
\* by a point and n2 fraction digits, and by an exponent.
ScanDigits(t, sgn, i2, n1, n2) ==
    IF n1 + Max2(n2, 0) = 0 THEN [ok |-> FALSE, val |-> NaN]
    ELSE Only({[ok |-> TRUE, val |-> Fin(sgn * Sat(Scale10(mant, exp - Max2(n2, 0) + 2)))] :
               mant \in {Sat(Scale10(DigitsVal(t, i2, n1), Max2(n2, 0))
                             + DigitsVal(t, i2 + n1 + 1, Max2(n2, 0)))},
               exp \in {ScanExp(t, IF n2 >= 0 THEN i2 + n1 + 1 + n2 ELSE i2 + n1)}})

\* What follows the sign, from index i2 on.
ScanUnsigned(t, sgn, i2) ==
    IF WordAt(t, i2, <<"i", "n", "f">>) \/ WordAt(t, i2, <<"I", "N", "F">>)
        THEN [ok |-> TRUE, val |-> IF sgn < 0 THEN NInf ELSE PInf]
    ELSE IF WordAt(t, i2, <<"n", "a", "n">>) \/ WordAt(t, i2, <<"N", "A", "N">>)
        THEN [ok |-> TRUE, val |-> NaN]
    ELSE Only({Only({ScanDigits(t, sgn, i2, n1, n2) :
                     n2 \in {IF i2 + n1 <= Len(t) /\ t[i2 + n1] = "."
                             THEN RunLen(t, i2 + n1 + 1) ELSE -1}}) :
               n1 \in {RunLen(t, i2)}})

\* The %f conversion on t from index i0: leading white space, a sign, then
\* "inf", "nan", or digits with an optional point and an optional exponent.
\* ok is FALSE when no number stands there.
ScanFloat(t, i0) ==
    Only({IF i1 <= Len(t) /\ t[i1] \in {"+", "-"}
          THEN ScanUnsigned(t, IF t[i1] = "-" THEN -1 ELSE 1, i1 + 1)
          ELSE ScanUnsigned(t, 1, i1) :
          i1 \in {SkipSpace(t, i0)}})

\* The %63[^:] conversion: the longest prefix without ':', at most 63 bytes.
ScanName(t) ==
    LET colons == {i \in 1..Len(t) : t[i] = ":"}
        upto == IF colons = {} THEN Len(t) ELSE (CHOOSE i \in colons : \A j \in colons : i <= j) - 1
    IN  SubSeq(t, 1, Min2(upto, NAME_WIDTH))

\* sscanf's result on the string t: n is its return value (-1 is EOF).
Sscanf(t) ==
    IF Len(t) = 0 THEN [n |-> -1, name |-> <<>>, val |-> NaN]
    ELSE Only({
        IF Len(name) = 0 THEN [n |-> 0, name |-> <<>>, val |-> NaN]
        ELSE IF Len(name) + 1 > Len(t) \/ t[Len(name) + 1] # ":" THEN [n |-> 1, name |-> name, val |-> NaN]
        ELSE Only({IF ~f.ok THEN [n |-> 1, name |-> name, val |-> NaN]
                   ELSE [n |-> 2, name |-> name, val |-> f.val] :
                   f \in {ScanFloat(t, Len(name) + 2)}}) :
        name \in {ScanName(t)}})

-----------------------------------------------------------------------------
(* The parameter store *)

LOWPASS == 0
BANDPASS == 1
HIGHPASS == 2
FilterMode == {LOWPASS, BANDPASS, HIGHPASS}

\* The globals' initial values.
Defaults == [
    ch1_gain |-> Fin(100), ch1_drive |-> Fin(0), ch1_filter_freq |-> Fin(1000000),
    ch1_filter_res |-> Fin(10), ch1_delay_time |-> Fin(0), ch1_delay_feedback |-> Fin(0),
    ch1_delay_mix |-> Fin(0), ch1_chorus_depth |-> Fin(0), ch1_chorus_rate |-> Fin(50),
    ch2_gain |-> Fin(100), ch2_drive |-> Fin(0), ch2_filter_freq |-> Fin(1000000),
    ch2_filter_res |-> Fin(10), ch2_delay_time |-> Fin(0), ch2_delay_feedback |-> Fin(0),
    ch2_delay_mix |-> Fin(0), ch2_chorus_depth |-> Fin(0), ch2_chorus_rate |-> Fin(50),
    cross_mod_amt |-> Fin(0), cross_bleed |-> Fin(0), stereo_width |-> Fin(100),
    reverb_mix |-> Fin(0), reverb_time |-> Fin(50), master_gain |-> Fin(100),
    ch1_filter_mode |-> LOWPASS, ch2_filter_mode |-> LOWPASS
]

\* The strcmp cascade of ProcessSerial in its order: the name on the wire, the
\* global it stores to and the bounds of its fclamp (for a filter mode, of
\* its acceptance test).
ParamTable == <<
    [name |-> <<"c", "h", "1", "_", "g", "a", "i", "n">>,
     field |-> "ch1_gain", mode |-> FALSE, lo |-> 0, hi |-> 200],
    [name |-> <<"c", "h", "1", "_", "d", "r", "i", "v", "e">>,
     field |-> "ch1_drive", mode |-> FALSE, lo |-> 0, hi |-> 100],
    [name |-> <<"c", "h", "1", "_", "f", "i", "l", "t", "e", "r", "_", "f", "r", "e", "q">>,
     field |-> "ch1_filter_freq", mode |-> FALSE, lo |-> 2000, hi |-> 2000000],
    [name |-> <<"c", "h", "1", "_", "f", "i", "l", "t", "e", "r", "_", "r", "e", "s">>,
     field |-> "ch1_filter_res", mode |-> FALSE, lo |-> 0, hi |-> 100],
    [name |-> <<"c", "h", "1", "_", "d", "e", "l", "a", "y", "_", "t", "i", "m", "e">>,
     field |-> "ch1_delay_time", mode |-> FALSE, lo |-> 0, hi |-> 100],
    [name |-> <<"c", "h", "1", "_", "d", "e", "l", "a", "y", "_", "f", "b">>,
     field |-> "ch1_delay_feedback", mode |-> FALSE, lo |-> 0, hi |-> 95],
    [name |-> <<"c", "h", "1", "_", "d", "e", "l", "a", "y", "_", "m", "i", "x">>,
     field |-> "ch1_delay_mix", mode |-> FALSE, lo |-> 0, hi |-> 100],
    [name |-> <<"c", "h", "1", "_", "c", "h", "o", "r", "u", "s", "_", "d", "e", "p", "t", "h">>,
     field |-> "ch1_chorus_depth", mode |-> FALSE, lo |-> 0, hi |-> 100],
    [name |-> <<"c", "h", "1", "_", "c", "h", "o", "r", "u", "s", "_", "r", "a", "t", "e">>,
     field |-> "ch1_chorus_rate", mode |-> FALSE, lo |-> 1, hi |-> 1000],
    [name |-> <<"c", "h", "1", "_", "f", "i", "l", "t", "e", "r", "_", "m", "o", "d", "e">>,
     field |-> "ch1_filter_mode", mode |-> TRUE, lo |-> 0, hi |-> 2],
    [name |-> <<"c", "h", "2", "_", "g", "a", "i", "n">>,
     field |-> "ch2_gain", mode |-> FALSE, lo |-> 0, hi |-> 200],
    [name |-> <<"c", "h", "2", "_", "d", "r", "i", "v", "e">>,
     field |-> "ch2_drive", mode |-> FALSE, lo |-> 0, hi |-> 100],
    [name |-> <<"c", "h", "2", "_", "f", "i", "l", "t", "e", "r", "_", "f", "r", "e", "q">>,
     field |-> "ch2_filter_freq", mode |-> FALSE, lo |-> 2000, hi |-> 2000000],
    [name |-> <<"c", "h", "2", "_", "f", "i", "l", "t", "e", "r", "_", "r", "e", "s">>,
     field |-> "ch2_filter_res", mode |-> FALSE, lo |-> 0, hi |-> 100],
    [name |-> <<"c", "h", "2", "_", "d", "e", "l", "a", "y", "_", "t", "i", "m", "e">>,
     field |-> "ch2_delay_time", mode |-> FALSE, lo |-> 0, hi |-> 100],
    [name |-> <<"c", "h", "2", "_", "d", "e", "l", "a", "y", "_", "f", "b">>,
     field |-> "ch2_delay_feedback", mode |-> FALSE, lo |-> 0, hi |-> 95],
    [name |-> <<"c", "h", "2", "_", "d", "e", "l", "a", "y", "_", "m", "i", "x">>,
     field |-> "ch2_delay_mix", mode |-> FALSE, lo |-> 0, hi |-> 100],
    [name |-> <<"c", "h", "2", "_", "c", "h", "o", "r", "u", "s", "_", "d", "e", "p", "t", "h">>,
     field |-> "ch2_chorus_depth", mode |-> FALSE, lo |-> 0, hi |-> 100],
    [name |-> <<"c", "h", "2", "_", "c", "h", "o", "r", "u", "s", "_", "r", "a", "t", "e">>,
     field |-> "ch2_chorus_rate", mode |-> FALSE, lo |-> 1, hi |-> 1000],
    [name |-> <<"c", "h", "2", "_", "f", "i", "l", "t", "e", "r", "_", "m", "o", "d", "e">>,
     field |-> "ch2_filter_mode", mode |-> TRUE, lo |-> 0, hi |-> 2],
    [name |-> <<"c", "r", "o", "s", "s", "_", "m", "o", "d">>,
     field |-> "cross_mod_amt", mode |-> FALSE, lo |-> 0, hi |-> 100],
    [name |-> <<"c", "r", "o", "s", "s", "_", "b", "l", "e", "e", "d">>,
     field |-> "cross_bleed", mode |-> FALSE, lo |-> 0, hi |-> 100],
    [name |-> <<"s", "t", "e", "r", "e", "o", "_", "w", "i", "d", "t", "h">>,
     field |-> "stereo_width", mode |-> FALSE, lo |-> 0, hi |-> 200],
    [name |-> <<"r", "e", "v", "e", "r", "b", "_", "m", "i", "x">>,
     field |-> "reverb_mix", mode |-> FALSE, lo |-> 0, hi |-> 100],
    [name |-> <<"r", "e", "v", "e", "r", "b", "_", "t", "i", "m", "e">>,
     field |-> "reverb_time", mode |-> FALSE, lo |-> 0, hi |-> 100],
    [name |-> <<"m", "a", "s", "t", "e", "r", "_", "g", "a", "i", "n">>,
     field |-> "master_gain", mode |-> FALSE, lo |-> 0, hi |-> 200]
>>

-----------------------------------------------------------------------------
(* UsbCallback: the receive handler *)

\* The bytes of buf before index n, as a text.
Text(buf, n) == [i \in 1..n |-> buf[i - 1]]

IsTerminator(c) == c = LF \/ c = ";"

\* A loop body that stores while the cursor is below the buffer's size.
RecvByteToTheEnd(st, c) ==
    IF IsTerminator(c)
    THEN [buf |-> [st.buf EXCEPT ![st.pos] = NUL], pos |-> 0, ready |-> TRUE,
          commits |-> st.commits \cup {Text(st.buf, st.pos)}]
    ELSE IF st.pos < SERIAL_BUF_SIZE
    THEN [st EXCEPT !.buf = [st.buf EXCEPT ![st.pos] = c], !.pos = st.pos + 1]
    ELSE [st EXCEPT !.pos = 0]

\* One pass of UsbCallback's loop body on byte c.  st holds serial_buf,
\* buf_pos, new_data_ready and the history of committed texts.
RecvByte(st, c) ==
    IF IsTerminator(c)
    THEN [buf |-> [st.buf EXCEPT ![st.pos] = NUL], pos |-> 0, ready |-> TRUE,
          commits |-> st.commits \cup {Text(st.buf, st.pos)}]
    ELSE IF st.pos < BUF_LIMIT
    THEN [st EXCEPT !.buf = [st.buf EXCEPT ![st.pos] = c], !.pos = st.pos + 1]
    ELSE [st EXCEPT !.pos = 0]

RECURSIVE RecvBytes(_, _, _)
\* UsbCallback's loop over buf[0..len-1].
RecvBytes(st, buf, i) ==
    IF i > Len(buf) THEN st
    ELSE Only({RecvBytes(s2, buf, i + 1) : s2 \in {RecvByte(st, buf[i])}})

\* UsbCallback(buf, len) on the next len bytes in flight.  It runs in the
\* USB interrupt: the main loop never runs inside it.
UsbCallback(len) ==
    /\ \E buf \in {SubSeq(wire, 1, len)} :
       \E st \in {RecvBytes([buf |-> serial_buf, pos |-> buf_pos, ready |-> new_data_ready,
                             commits |-> commits], buf, 1)} :
          /\ serial_buf' = st.buf
          /\ buf_pos' = st.pos
          /\ new_data_ready' = st.ready
          /\ commits' = st.commits
    /\ wire' = SubSeq(wire, len + 1, Len(wire))
    /\ UNCHANGED <<params, pc, scan_i, scanned, sent, last, writes>>
    /\ UNCHANGED audioVars

-----------------------------------------------------------------------------
(* ProcessSerial: the main loop's parser.  The USB interrupt may run      *)
(* between any two of its steps, sscanf's byte reads included.            *)

INT_MAX == 2147483647

\* (int)val truncates toward zero.  Out of int's range (here: saturated,
\* infinite) or NaN the conversion is undefined: the FPU's saturating
\* convert gives INT_MAX, INT_MIN, or 0 for NaN; other builds give INT_MIN.
IntCast(val) ==
    IF val.k = "nan" THEN {0, -INT_MAX - 1}
    ELSE IF val.k = "inf" \/ val.v >= SatCap \/ val.v <= -SatCap THEN {INT_MAX, -INT_MAX - 1}
    ELSE {IF val.v >= 0 THEN val.v \div SCALE ELSE -((-val.v) \div SCALE)}

\* A comparison of the first strlen(a) bytes only.
StrCmpPrefix(a, b) == Len(a) <= Len(b) /\ SubSeq(b, 1, Len(a)) = a

\* strcmp(a, b) == 0
StrCmp(a, b) == a = b

RECURSIVE FindParam(_, _)
\* The first row from i on whose name strcmp matches; 0 when none does.
FindParam(name, i) ==
    IF i > Len(ParamTable) THEN 0
    ELSE IF StrCmp(name, ParamTable[i].name) THEN i
    ELSE FindParam(name, i + 1)

\* An acceptance test that lets 3 through.
ModeOkLoose(row, m) == m >= row.lo /\ m <= row.hi + 1

\* if(mode >= 0 && mode <= 2)
ModeOk(row, m) == m >= row.lo /\ m <= row.hi

\* A matched branch that stores to master_gain as well.
StoreAlsoMaster(p, row, val, m) ==
    IF row.mode
    THEN (IF ModeOk(row, m) THEN [p EXCEPT ![row.field] = m] ELSE p)
    ELSE [p EXCEPT ![row.field] = FClamp(val, Fin(row.lo), Fin(row.hi)),
                   !.master_gain = FClamp(val, Fin(0), Fin(200))]

\* The matched branch: the store it makes to the parameter globals p, m
\* being the outcome of (int)val.
Store(p, row, val, m) ==
    IF row.mode
    THEN (IF ModeOk(row, m) THEN [p EXCEPT ![row.field] = m] ELSE p)
    ELSE [p EXCEPT ![row.field] = FClamp(val, Fin(row.lo), Fin(row.hi))]

\* A test that takes one converted item for success.
ScanOkAny(r) == r.n >= 1

\* sscanf(...) == 2
ScanOk(r) == r.n = 2

\* A poll that goes on to parse whatever the flag says.
PS_TestAlways ==
    /\ pc = "idle"
    /\ apc = "idle"
    /\ pc' = "clear"
    /\ UNCHANGED <<params, serial_buf, buf_pos, new_data_ready, scan_i, scanned,
                   wire, sent, commits, last, writes>>
    /\ UNCHANGED audioVars

\* if(new_data_ready)
PS_Test ==
    /\ pc = "idle"
    /\ apc = "idle"
    /\ new_data_ready
    /\ pc' = "clear"
    /\ UNCHANGED <<params, serial_buf, buf_pos, new_data_ready, scan_i, scanned,
                   wire, sent, commits, last, writes>>
    /\ UNCHANGED audioVars

\* A clear that also rewinds the cursor.
PS_ClearRewind ==
    /\ pc = "clear"
    /\ apc = "idle"
    /\ new_data_ready' = FALSE
    /\ buf_pos' = 0
    /\ pc' = "scan"
    /\ scan_i' = 0
    /\ scanned' = <<>>
    /\ UNCHANGED <<params, serial_buf, wire, sent, commits, last, writes>>
    /\ UNCHANGED audioVars

\* new_data_ready = false;
PS_Clear ==
    /\ pc = "clear"
    /\ apc = "idle"
    /\ new_data_ready' = FALSE
    /\ pc' = "scan"
    /\ scan_i' = 0
    /\ scanned' = <<>>
    /\ UNCHANGED <<params, serial_buf, buf_pos, wire, sent, commits, last, writes>>
    /\ UNCHANGED audioVars

\* sscanf reads the string byte by byte up to its NUL.
PS_Scan ==
    /\ pc = "scan"
    /\ apc = "idle"
    /\ IF serial_buf[scan_i] = NUL
       THEN pc' = "apply" /\ UNCHANGED <<scan_i, scanned>>
       ELSE /\ scanned' = Append(scanned, serial_buf[scan_i])
            /\ scan_i' = scan_i + 1
            /\ pc' = pc
    /\ UNCHANGED <<params, serial_buf, buf_pos, new_data_ready, wire, sent, commits,
                   last, writes>>
    /\ UNCHANGED audioVars

\* The test of sscanf's result and the strcmp cascade.
PS_Apply ==
    /\ pc = "apply"
    /\ apc = "idle"
    /\ \E r \in {Sscanf(scanned)} :
       \E i \in {FindParam(r.name, 1)} :
          /\ IF ScanOk(r) /\ i > 0
             THEN \E m \in IntCast(r.val) :
                  \E new \in {Store(params, ParamTable[i], r.val, m)} :
                     /\ params' = new
                     /\ writes' = IF ParamTable[i].mode /\ ~ModeOk(ParamTable[i], m)
                                  THEN writes
                                  ELSE writes \cup {<<ParamTable[i].field, new[ParamTable[i].field]>>}
                     /\ last' = [n |-> r.n, row |-> i, val |-> r.val,
                                 stored |-> IF ParamTable[i].mode /\ ~ModeOk(ParamTable[i], m)
                                            THEN 0 ELSE 1]
             ELSE /\ UNCHANGED <<params, writes>>
                  /\ last' = [n |-> r.n, row |-> i, val |-> r.val, stored |-> 0]
    /\ pc' = "idle"
    /\ scan_i' = 0
    /\ scanned' = <<>>
    /\ UNCHANGED <<serial_buf, buf_pos, new_data_ready, wire, sent, commits>>
    /\ UNCHANGED audioVars

\* The main loop, which ProcessSerial runs in, stands still while the audio
\* interrupt is served: each step above waits for AudioCallback to return.
ProcessSerial == PS_Test \/ PS_Clear \/ PS_Scan \/ PS_Apply

-----------------------------------------------------------------------------
(* AudioCallback.  The daisysp primitives (Overdrive, Svf, DelayLine,      *)
(* Chorus) keep their own state and are known only by their interface:     *)
(* what a Process or Low/Band/High call returns is any float, what Read    *)
(* returns is a float the line holds.                                      *)

MaxBlock == 2

\* MySoftClip
MySoftClip(x) ==
    IF FGt(x, One) THEN One
    ELSE IF FLt(x, FNeg(One)) THEN FNeg(One)
    ELSE FSub(x, FDiv(FMul(FMul(x, x), x), Fin(3 * SCALE)))

\* A check that lets every value through.
SanitizeNone(x) == x

\* if(!std::isfinite(x)) x = 0.0f;
Sanitize(x) == IF ~IsFinite(x) THEN Zero ELSE x

CROSS_MOD_FREQ_RANGE == 5000
MAX_DELAY_SAMPLES == 48000

\* A cutoff that is modulated and not clamped.
ModFreqUnclamped(cp, other_in) ==
    IF FGt(cp.cross, Zero)
    THEN FAdd(cp.freq, FMul(FMul(other_in, cp.cross), Fin(CROSS_MOD_FREQ_RANGE * SCALE)))
    ELSE cp.freq

\* The cutoff handed to SetFreq: the stored one, moved by the other channel's
\* input sample and clamped when cross_mod_amt is above 0.
ModFreq(cp, other_in) ==
    IF FGt(cp.cross, Zero)
    THEN FClamp(FAdd(cp.freq, FMul(FMul(other_in, cp.cross), Fin(CROSS_MOD_FREQ_RANGE * SCALE))),
                Fin(20 * SCALE), Fin(20000 * SCALE))
    ELSE cp.freq

\* A filter that is run only when its low output is the one in use.
FilterStageLazy(cp, other_in, drive_out, filt) ==
    [calls |-> IF cp.mode = LOWPASS
               THEN <<[freq |-> ModFreq(cp, other_in), res |-> cp.res, in |-> drive_out]>>
               ELSE <<>>,
     outs |-> filt,
     out |-> IF cp.mode = LOWPASS THEN filt[1]
             ELSE IF cp.mode = BANDPASS THEN filt[2]
             ELSE IF cp.mode = HIGHPASS THEN filt[3]
             ELSE drive_out]

\* SetFreq, SetRes and Process on every sample, then the switch on the mode:
\* filt is what Low(), Band() and High() return, drive_out what the overdrive
\* returned.  A mode outside the enum leaves the overdrive's output.
FilterStage(cp, other_in, drive_out, filt) ==
    [calls |-> <<[freq |-> ModFreq(cp, other_in), res |-> cp.res, in |-> drive_out]>>,
     outs |-> filt,
     out |-> IF cp.mode = LOWPASS THEN filt[1]
             ELSE IF cp.mode = BANDPASS THEN filt[2]
             ELSE IF cp.mode = HIGHPASS THEN filt[3]
             ELSE drive_out]

\* static_cast<size_t>(delay_time * 48000.0f); delay_time is finite and not
\* negative in every state the parameter store reaches.
DelayOffset(dtime) ==
    IF dtime.k = "fin" THEN FMul(dtime, Fin(48000 * SCALE)).v \div SCALE ELSE 0

\* A delay stage that applies the feedback gain to what it writes at mix 0.
DelayStageDryGain(cp, x, delayed) ==
    IF FGt(cp.dmix, Zero)
    THEN [dread |-> <<[offset |-> DelayOffset(cp.dtime), val |-> delayed]>>,
          dwrite |-> <<FAdd(x, FMul(delayed, cp.dfb))>>,
          out |-> FAdd(FMul(x, FSub(One, cp.dmix)), FMul(delayed, cp.dmix))]
    ELSE [dread |-> <<>>, dwrite |-> <<FMul(x, cp.dfb)>>, out |-> x]

\* The delay stage on the sample x, delayed being what Read returns.
DelayStage(cp, x, delayed) ==
    IF FGt(cp.dmix, Zero)
    THEN [dread |-> <<[offset |-> DelayOffset(cp.dtime), val |-> delayed]>>,
          dwrite |-> <<FAdd(x, FMul(delayed, cp.dfb))>>,
          out |-> FAdd(FMul(x, FSub(One, cp.dmix)), FMul(delayed, cp.dmix))]
    ELSE [dread |-> <<>>, dwrite |-> <<x>>, out |-> x]

\* One channel's stages from gain to chorus.  cp holds the channel's
\* parameters, x what the primitives return on this sample: the overdrive,
\* the filter's three outputs, the delay line's read, the chorus.  The gained
\* sample goes into the overdrive and from it into the filter, whose outputs
\* replace it.
ChannelStage(cp, own_in, other_in, x) ==
    LET f == FilterStage(cp, other_in, x.drive, x.filt)
        d == DelayStage(cp, f.out, x.delayed)
    IN  [out |-> IF FGt(cp.depth, Zero) THEN x.chorus ELSE d.out,
         calls |-> [filter |-> f.calls, outs |-> f.outs, post |-> f.out,
                    dread |-> d.dread, dwrite |-> d.dwrite, dout |-> d.out]]

NoCalls == [filter |-> <<>>, outs |-> <<Zero, Zero, Zero>>, post |-> Zero, dread |-> <<>>, dwrite |-> <<>>, dout |-> Zero]

\* A DelayLine is known by its interface: Read returns a value the line
\* holds, which is one that Init or a Write put there.  held is the set of
\* those values; of a line that has run for an unknown time nothing is known
\* and Read returns any value.  dry and nwet are history: the values written
\* while the channel's delay_mix was 0, and how many writes (up to 2) were
\* made while it was above 0.
DelUnknown == [known |-> FALSE, held |-> {}, dry |-> {}, nwet |-> 0]

\* del.Init(): the line holds zeros.
DelInit == [known |-> TRUE, held |-> {Zero}, dry |-> {}, nwet |-> 0]

DelayRead(d) == IF d.known THEN d.held ELSE ext

DelayWrite(d, cp, v) ==
    IF ~d.known THEN d
    ELSE IF FGt(cp.dmix, Zero)
    THEN [d EXCEPT !.held = @ \cup {v}, !.nwet = Min2(@ + 1, 2)]
    ELSE [d EXCEPT !.held = @ \cup {v}, !.dry = @ \cup {v}]

\* A bleed whose second assignment reads the first one's result.
CrossBleedSequential(a, b, bleed) ==
    IF FGt(bleed, Zero)
    THEN <<FAdd(FMul(a, FSub(One, bleed)), FMul(b, bleed)),
           FAdd(FMul(b, FSub(One, bleed)),
                FMul(FAdd(FMul(a, FSub(One, bleed)), FMul(b, bleed)), bleed))>>
    ELSE <<a, b>>

\* CROSS-CHANNEL BLEED
CrossBleed(a, b, bleed) ==
    IF FGt(bleed, Zero)
    THEN <<FAdd(FMul(a, FSub(One, bleed)), FMul(b, bleed)),
           FAdd(FMul(b, FSub(One, bleed)), FMul(a, bleed))>>
    ELSE <<a, b>>

\* A width stage that hands mid + side to the right and mid - side to the left.
StereoWidthSwapped(a, b, width) ==
    LET mid == FMul(FAdd(a, b), Half)
        side == FMul(FMul(FSub(a, b), Half), width)
    IN  <<FSub(mid, side), FAdd(mid, side)>>

\* STEREO WIDTH
StereoWidth(a, b, width) ==
    LET mid == FMul(FAdd(a, b), Half)
        side == FMul(FMul(FSub(a, b), Half), width)
    IN  <<FAdd(mid, side), FSub(mid, side)>>

\* MASTER REVERB (the placeholder)
MasterReverb(a, b, mix, time) ==
    IF FGt(mix, Zero)
    THEN <<FAdd(FMul(a, FSub(One, mix)), FMul(FMul(a, mix), time)),
           FAdd(FMul(b, FSub(One, mix)), FMul(FMul(b, mix), time))>>
    ELSE <<a, b>>

\* MASTER OUTPUT and the final safety check, for one channel.
MasterOutput(x, gain) == Sanitize(MySoftClip(FMul(x, gain)))

\* Input samples: silence, full scale either way, non-finite.
InSamples == {Zero, Fin(-100), Fin(100), NaN, PInf}

\* What the overdrive, filter and chorus objects may return, as the set one
\* run draws from: small and odd, over full scale and huge, non-finite.
ExtSets == {{Zero, Fin(40), Fin(7)}, {Fin(40), Fin(-300), Fin(50000000)}, {Fin(7), PInf, NaN}}

\* The values of a run that follows the host's commands.
HostExt == {Fin(40), Fin(-300)}

\* The filter's low, band and high outputs on one sample; the three differ
\* but for 0, the filter at rest.
FilterOuts == {<<v, FNeg(v), FAdd(v, v)>> : v \in ext}

Chan1 == [gain |-> params.ch1_gain, mode |-> params.ch1_filter_mode,
          freq |-> params.ch1_filter_freq, res |-> params.ch1_filter_res,
          cross |-> params.cross_mod_amt,
          dtime |-> params.ch1_delay_time, dfb |-> params.ch1_delay_feedback,
          dmix |-> params.ch1_delay_mix, depth |-> params.ch1_chorus_depth]
Chan2 == [gain |-> params.ch2_gain, mode |-> params.ch2_filter_mode,
          freq |-> params.ch2_filter_freq, res |-> params.ch2_filter_res,
          cross |-> params.cross_mod_amt,
          dtime |-> params.ch2_delay_time, dfb |-> params.ch2_delay_feedback,
          dmix |-> params.ch2_delay_mix, depth |-> params.ch2_chorus_depth]

\* The picks of one channel's primitives: a read of the delay line d and a
\* chorus output exist only when the stage runs.
Externals(cp, d) ==
    {[drive |-> g, filt |-> f, delayed |-> r, chorus |-> c] :
        g \in ext, f \in FilterOuts,
        r \in (IF FGt(cp.dmix, Zero) THEN DelayRead(d) ELSE {Zero}),
        c \in (IF FGt(cp.depth, Zero) THEN ext ELSE {Zero})}

\* The callback is entered with a block of size samples.
AC_Enter ==
    /\ apc = "idle"
    /\ \E size \in 1..MaxBlock : blk' = [i |-> 0, size |-> size]
    /\ apc' = "read"
    /\ UNCHANGED <<params, serialVars, ch1_in, ch2_in, ch1, ch2, piped, mixed, out>>
    /\ UNCHANGED <<ext, del1, del2, calls1, calls2, bled>>

\* READ INPUTS and their validation.  piped, bled, mixed and out are those of
\* the sample in progress: out[0][i] and out[1][i] are not written yet.
AC_Read ==
    /\ apc = "read"
    /\ \E a \in InSamples, b \in InSamples :
          /\ ch1_in' = Sanitize(a)
          /\ ch2_in' = Sanitize(b)
    /\ apc' = "ch1"
    /\ piped' = <<Zero, Zero>>
    /\ bled' = <<Zero, Zero>>
    /\ mixed' = <<Zero, Zero>>
    /\ out' = <<Zero, Zero>>
    /\ UNCHANGED <<params, serialVars, blk, ch1, ch2>>
    /\ UNCHANGED <<ext, del1, del2, calls1, calls2>>

\* CHANNEL 1 PROCESSING
AC_Channel1 ==
    /\ apc = "ch1"
    /\ \E x \in Externals(Chan1, del1) :
       \E r \in {ChannelStage(Chan1, ch1_in, ch2_in, x)} :
          /\ ch1' = r.out
          /\ calls1' = r.calls
          /\ del1' = DelayWrite(del1, Chan1, r.calls.dwrite[1])
    /\ apc' = "ch2"
    /\ UNCHANGED <<params, serialVars, blk, ch1_in, ch2_in, ch2, piped, mixed, out>>
    /\ UNCHANGED <<ext, del2, calls2, bled>>

\* CHANNEL 2 PROCESSING.  ch1_in is read again here, for the cross modulation.
AC_Channel2 ==
    /\ apc = "ch2"
    /\ \E x \in Externals(Chan2, del2) :
       \E r \in {ChannelStage(Chan2, ch2_in, ch1_in, x)} :
          /\ ch2' = r.out
          /\ calls2' = r.calls
          /\ del2' = DelayWrite(del2, Chan2, r.calls.dwrite[1])
          /\ piped' = <<ch1, r.out>>
    /\ apc' = "mix"
    /\ ch1_in' = Zero
    /\ ch2_in' = Zero
    /\ calls1' = NoCalls
    /\ UNCHANGED <<params, serialVars, blk, ch1, mixed, out>>
    /\ UNCHANGED <<ext, del1, bled>>

\* CROSS-CHANNEL BLEED, STEREO WIDTH, MASTER REVERB
AC_Mix ==
    /\ apc = "mix"
    /\ \E b \in {CrossBleed(ch1, ch2, params.cross_bleed)} :
       \E w \in {StereoWidth(b[1], b[2], params.stereo_width)} :
       \E r \in {MasterReverb(w[1], w[2], params.reverb_mix, params.reverb_time)} :
           /\ ch1' = r[1]
           /\ ch2' = r[2]
           /\ bled' = b
           /\ mixed' = r
    /\ apc' = "out"
    /\ calls2' = NoCalls
    /\ UNCHANGED <<params, serialVars, blk, ch1_in, ch2_in, piped, out>>
    /\ UNCHANGED <<ext, del1, del2, calls1>>

\* MASTER OUTPUT, the writes to out[0][i] and out[1][i], and i++.
AC_Output ==
    /\ apc = "out"
    /\ out' = <<MasterOutput(ch1, params.master_gain), MasterOutput(ch2, params.master_gain)>>
    /\ blk' = [blk EXCEPT !.i = blk.i + 1]
    /\ apc' = IF blk.i + 1 < blk.size THEN "read" ELSE "idle"
    /\ ch1' = Zero /\ ch2' = Zero
    /\ UNCHANGED <<params, serialVars, ch1_in, ch2_in, piped, mixed>>
    /\ UNCHANGED <<ext, del1, del2, calls1, calls2, bled>>

AudioCallback == AC_Enter \/ AC_Read \/ AC_Channel1 \/ AC_Channel2 \/ AC_Mix \/ AC_Output

\* Parameter states the audio path is run in: the mixer and master fields,
\* and the channel fields that steer the stages.
MixerConfigs ==
    {[Defaults EXCEPT !.cross_bleed = Fin(b), !.stereo_width = Fin(w),
                      !.reverb_mix = Fin(r), !.reverb_time = Fin(t), !.master_gain = Fin(m)] :
        b \in {0, 50}, w \in {0, 100, 200}, r \in {0, 50}, t \in {50}, m \in {0, 100, 200}}

ChannelConfigs ==
    {[Defaults EXCEPT !.ch1_filter_mode = m, !.ch2_filter_mode = (m + 1) % 3,
                      !.ch1_delay_mix = Fin(d), !.ch2_chorus_depth = Fin(c)] :
        m \in FilterMode, d \in {0, 50}, c \in {0, 50}}

CrossModConfigs ==
    {[Defaults EXCEPT !.cross_mod_amt = Fin(x), !.ch1_filter_freq = Fin(f),
                      !.ch2_filter_freq = Fin(g)] :
        x \in {50, 100}, f \in {2000, 100000}, g \in {100000, 2000000}}

DelayConfigs ==
    {[Defaults EXCEPT !.ch1_delay_mix = Fin(50), !.ch2_delay_mix = Fin(m),
                      !.ch1_delay_time = Fin(t), !.ch2_delay_time = Fin(100 - t),
                      !.ch1_delay_feedback = Fin(fb)] :
        m \in {0, 100}, t \in {0, 50, 100}, fb \in {0, 50}}

AudioIdle ==
    /\ apc = "idle"
    /\ blk = [i |-> 0, size |-> 0]
    /\ ch1_in = Zero /\ ch2_in = Zero /\ ch1 = Zero /\ ch2 = Zero
    /\ piped = <<Zero, Zero>>
    /\ bled = <<Zero, Zero>>
    /\ mixed = <<Zero, Zero>>
    /\ out = <<Zero, Zero>>
    /\ calls1 = NoCalls /\ calls2 = NoCalls

SerialIdle ==
    /\ serial_buf = [i \in 0..(SERIAL_BUF_SIZE - 1) |-> NUL]
    /\ buf_pos = 0
    /\ new_data_ready = FALSE
    /\ pc = "idle"
    /\ scan_i = 0
    /\ scanned = <<>>
    /\ commits = {}
    /\ last = [n |-> -2, row |-> 0, val |-> NaN, stored |-> 0]
    /\ writes = {}

-----------------------------------------------------------------------------
(* The host: what it sends in one run.  A script is a sequence of lines,   *)
(* each a text and the terminator bytes that follow it.                    *)

MaxOver == 2

\* The longest buffer one UsbCallback call is handed.  A call on n bytes
\* leaves the state that n calls on one byte each leave, so every state a
\* longer packet reaches is reached with short ones.
MaxPacket == 3

\* Value texts: over, under and inside the ranges, modes, non-finite.
ValueTexts == {
    <<"9", "9">>,
    <<"-", "5">>,
    <<"1", ".", "5">>,
    <<"0", ".", "5">>,
    <<"0">>,
    <<"1">>,
    <<"2">>,
    <<"2", ".", "9">>,
    <<"3">>,
    <<"-", "0", ".", "5">>,
    <<"-", "1">>,
    <<"2", "5", "0", "0", "0">>,
    <<"0", ".", "0", "0", "9">>,
    <<"n", "a", "n">>,
    <<"i", "n", "f">>,
    <<"-", "i", "n", "f">>,
    <<"1", "e", "3">>
}

\* The values of the examples in ProcessSerial's comment.
DocValues == {
    <<"1", ".", "5">>,
    <<"0", ".", "8">>,
    <<"2", "0", "0", "0", ".", "0">>
}

\* Lines a host sends back to back: two commands, an unknown name, an
\* empty line.
SmallLines == {
    <<"c", "h", "1", "_", "g", "a", "i", "n", ":", "2">>,
    <<"c", "h", "2", "_", "d", "r", "i", "v", "e", ":", "1">>,
    <<"f", "o", "o", ":", "1">>,
    <<>>
}

\* Well-formed lines whose name is not in the table.
UnknownLines == {
    <<"f", "o", "o", ":", "1", ".", "0">>,
    <<"C", "H", "1", "_", "G", "A", "I", "N", ":", "1", ".", "5">>,
    <<"c", "h", "1", "_", "g", "a", "i", ":", "1", ".", "5">>,
    <<"c", "h", "1", "_", "g", "a", "i", "n", "x", ":", "1", ".", "5">>,
    <<"x", "c", "h", "1", "_", "g", "a", "i", "n", ":", "1", ".", "5">>,
    <<" ", "c", "h", "1", "_", "g", "a", "i", "n", ":", "1", ".", "5">>,
    <<"c", "h", "1", "_", "g", "a", "i", "n", " ", ":", "1", ".", "5">>,
    <<"c", "h", "1", ":", "1", ".", "5">>
}

\* Lines that do not scan as name, ':' and value.
MalformedLines == {
    <<>>,
    <<"a", "b", "c">>,
    <<"c", "h", "1", "_", "g", "a", "i", "n">>,
    <<"c", "h", "1", "_", "g", "a", "i", "n", ":">>,
    <<"c", "h", "1", "_", "g", "a", "i", "n", ":", "a", "b", "c">>,
    <<"c", "h", "1", "_", "g", "a", "i", "n", ":", "-">>,
    <<":", "1", ".", "5">>
}

Rep(c, n) == [i \in 1..n |-> c]
Cmd(name, value) == name \o <<":">> \o value
Line(text, term) == [text |-> text, term |-> term]

GoodLine == <<"c", "h", "1", "_", "g", "a", "i", "n", ":", "1", ".", "5">>

\* A name of 63 and of 64 bytes.
LongNameLines == {Cmd(Rep("n", NAME_WIDTH), <<"1">>), Cmd(Rep("n", NAME_WIDTH + 1), <<"1">>)}

\* One line and its terminator.
SingleScripts ==
    {[tag |-> "single", lines |-> <<Line(x, t)>>] :
        x \in {Cmd(ParamTable[i].name, v) : i \in 1..Len(ParamTable), v \in ValueTexts}
              \cup UnknownLines \cup MalformedLines \cup LongNameLines,
        t \in {<<";">>, <<LF>>}}

\* The format of ProcessSerial's comment: "param:value;\n".
DocScripts ==
    {[tag |-> "doc", lines |-> <<Line(Cmd(ParamTable[i].name, v), <<";", LF>>)>>] :
        i \in 1..Len(ParamTable), v \in DocValues}

\* Two different lines back to back.
SeqScripts ==
    {[tag |-> "seq", lines |-> <<Line(q[1], <<";">>), Line(q[2], <<";">>)>>] :
        q \in {x \in SmallLines \X SmallLines : x[1] # x[2]}}

\* A line of L > 127 bytes without a terminator, then a short command.
OverflowScripts ==
    {[tag |-> "overflow", lines |-> <<Line(Rep("x", L), <<>>), Line(GoodLine, <<";">>)>>] :
        L \in SERIAL_BUF_SIZE..(SERIAL_BUF_SIZE + MaxOver)}

Scripts == SingleScripts \cup DocScripts \cup SeqScripts \cup OverflowScripts

\* A host that turns a channel's delay on while audio runs and starts on its
\* next command.
DelayOnScripts ==
    {[tag |-> "delay on", lines |-> <<Line(Cmd(n, <<"1">>), <<";">>), Line(<<"c">>, <<>>)>>] :
        n \in {<<"c", "h", "1", "_", "d", "e", "l", "a", "y", "_", "m", "i", "x">>,
               <<"c", "h", "2", "_", "d", "e", "l", "a", "y", "_", "m", "i", "x">>}}

RECURSIVE Bytes(_, _)
\* The bytes of the lines from k on, in the order the host sends them.
Bytes(lines, k) ==
    IF k > Len(lines) THEN <<>> ELSE lines[k].text \o lines[k].term \o Bytes(lines, k + 1)

-----------------------------------------------------------------------------
(* The system *)

Init ==
    /\ params = Defaults
    /\ SerialIdle
    /\ sent \in Scripts
    /\ wire = Bytes(sent.lines, 1)
    /\ AudioIdle
    /\ ext = HostExt
    /\ del1 = DelInit /\ del2 = DelInit

Receive == \E len \in 1..Min2(Len(wire), MaxPacket) : UsbCallback(len)

Next == Receive \/ PS_Test \/ PS_Clear \/ PS_Scan \/ PS_Apply

Spec == Init /\ [][Next]_vars

\* The audio path alone, the parameters being as some commands left them
\* and no byte in flight.
AudioInit ==
    /\ params \in MixerConfigs \cup ChannelConfigs \cup CrossModConfigs \cup DelayConfigs
    /\ SerialIdle
    /\ sent = [tag |-> "none", lines |-> <<>>]
    /\ wire = <<>>
    /\ AudioIdle
    /\ ext \in ExtSets
    /\ del1 = DelUnknown /\ del2 = DelUnknown

AudioNext == AC_Enter \/ AC_Read \/ AC_Channel1 \/ AC_Channel2 \/ AC_Mix \/ AC_Output

AudioSpec == AudioInit /\ [][AudioNext]_vars

\* The whole program: the main loop, the USB interrupt and the audio
\* interrupt, from the state main() leaves before its loop.
SystemInit ==
    /\ params = Defaults
    /\ SerialIdle
    /\ sent \in DelayOnScripts
    /\ wire = Bytes(sent.lines, 1)
    /\ AudioIdle
    /\ ext = HostExt
    /\ del1 = DelInit /\ del2 = DelInit

SystemNext == Next \/ AudioNext

SystemSpec == SystemInit /\ [][SystemNext]_vars

\* The main loop polls ProcessSerial for ever and the USB interrupt delivers
\* every byte in flight.
FairSpec == Spec /\ WF_vars(ProcessSerial) /\ WF_vars(Receive)

-----------------------------------------------------------------------------
(* The properties *)

ModeFields == {"ch1_filter_mode", "ch2_filter_mode"}
FloatFields == DOMAIN Defaults \ ModeFields

\* The range declared for a float parameter, as <<low, high>> in hundredths.
DeclaredRange(f) ==
    IF f \in {"ch1_gain", "ch2_gain", "master_gain", "stereo_width"} THEN <<0, 200>>
    ELSE IF f \in {"ch1_filter_freq", "ch2_filter_freq"} THEN <<2000, 2000000>>
    ELSE IF f \in {"ch1_delay_feedback", "ch2_delay_feedback"} THEN <<0, 95>>
    ELSE IF f \in {"ch1_chorus_rate", "ch2_chorus_rate"} THEN <<1, 1000>>
    ELSE <<0, 100>>

\* The number v of hundredths brought into the range declared for f.
ClampTo(v, f) == Max2(DeclaredRange(f)[1], Min2(v, DeclaredRange(f)[2]))

\* No byte is in flight and ProcessSerial has nothing left to do.
Quiescent == wire = <<>> /\ pc = "idle" /\ ~new_data_ready

\* The step that ends a run of ProcessSerial.
ApplyStep == pc = "apply" /\ pc' = "idle"

HasColon(t) == \E k \in 1..Len(t) : t[k] = ":"
FirstColon(t) == CHOOSE k \in 1..Len(t) : t[k] = ":" /\ \A j \in 1..(k - 1) : t[j] # ":"

\* The two commands of SmallLines with the field each names and the value,
\* in hundredths, it asks for.
SeqCommands == {
    [text |-> <<"c", "h", "1", "_", "g", "a", "i", "n", ":", "2">>,
     field |-> "ch1_gain", val |-> 200],
    [text |-> <<"c", "h", "2", "_", "d", "r", "i", "v", "e", ":", "1">>,
     field |-> "ch2_drive", val |-> 100]
}

\* C1: in every reachable state each float parameter is finite and within
\* its declared range; and when the last accepted command carried a value
\* above the range the parameter holds the upper bound, when it carried a
\* value below the range the parameter holds the lower bound.
C1_RangeInvariant ==
    /\ \A f \in FloatFields :
          /\ params[f].k = "fin"
          /\ DeclaredRange(f)[1] <= params[f].v
          /\ params[f].v <= DeclaredRange(f)[2]
    /\ (last.n = 2 /\ last.row > 0 /\ ~ParamTable[last.row].mode) =>
          LET f == ParamTable[last.row].field
          IN  /\ FGt(last.val, Fin(DeclaredRange(f)[2])) => params[f] = Fin(DeclaredRange(f)[2])
              /\ FLt(last.val, Fin(DeclaredRange(f)[1])) => params[f] = Fin(DeclaredRange(f)[1])

\* "ch1_gain:99" has been applied: ch1_gain holds 2.0.
C1_Witness ==
    /\ pc = "idle"
    /\ last = [n |-> 2, row |-> 1, val |-> Fin(9900), stored |-> 1]
    /\ params.ch1_gain = Fin(200)

\* C2: under every interleaving of UsbCallback with ProcessSerial, the text
\* ProcessSerial parses is the text of one command a terminator committed,
\* never a mixture of it with bytes of a later command.
C2_ParsedIsCommitted == pc = "apply" => scanned \in commits

\* C3: with ProcessSerial polled for ever, every committed well-formed
\* command with a recognized name leads to a write of its clamped value to
\* the parameter it names, also when several are committed between polls.
C3_NoCommandLost ==
    \A c \in SeqCommands :
        (c.text \in commits) ~> (<<c.field, Fin(ClampTo(c.val, c.field))>> \in writes)

\* C4: after L > 128 bytes without a terminator and then "ch1_gain:1.5;",
\* once ProcessSerial has run, ch1_gain holds 1.5 and the one committed text
\* is that command, without a byte of the overflowed line.
C4_OverflowRecovery ==
    (sent.tag = "overflow" /\ Len(sent.lines[1].text) > SERIAL_BUF_SIZE /\ Quiescent) =>
        /\ params.ch1_gain = Fin(150)
        /\ commits = {GoodLine}

\* The value, in hundredths, of a text of DocValues.
DocNumber(v) ==
    IF v = <<"1", ".", "5">> THEN 150
    ELSE IF v = <<"0", ".", "8">> THEN 80
    ELSE 200000

\* C5: after the bytes of "name:value;\n" have been delivered, in any
\* split, and ProcessSerial has run to completion, the float parameter the
\* name stands for holds the clamped value.
C5_DocFormatApplied ==
    (sent.tag = "doc" /\ Quiescent) =>
        \A i \in 1..Len(ParamTable), v \in DocValues :
            (sent.lines[1].text = Cmd(ParamTable[i].name, v) /\ ~ParamTable[i].mode) =>
                params[ParamTable[i].field] = Fin(ClampTo(DocNumber(v), ParamTable[i].field))

\* The names ProcessSerial recognizes.
RecognizedNames == {ParamTable[i].name : i \in 1..Len(ParamTable)}

\* The text before the first ':' of t is not a recognized name.
UnknownName(t) == HasColon(t) /\ SubSeq(t, 1, FirstColon(t) - 1) \notin RecognizedNames

\* C6: a run of ProcessSerial on a text whose name is not exactly one of
\* the recognized names (other case, a leading or trailing character more,
\* a prefix of a name) leaves every parameter, the filter modes included,
\* unchanged.
C6_UnknownNameNoOp == [][(ApplyStep /\ UnknownName(scanned)) => params' = params]_vars

\* "ch1_gai:1.5", a prefix of a name, has been parsed as a name and a value
\* and matched nothing.
C6_Witness ==
    /\ sent.tag = "single"
    /\ sent.lines[1].text = <<"c", "h", "1", "_", "g", "a", "i", ":", "1", ".", "5">>
    /\ pc = "idle"
    /\ last = [n |-> 2, row |-> 0, val |-> Fin(150), stored |-> 0]
    /\ params = Defaults

\* The text is empty, has no ':', has no name or a name of more than 63
\* bytes before its first ':', or has nothing a number starts with after it.
Malformed(t) ==
    \/ Len(t) = 0
    \/ ~HasColon(t)
    \/ HasColon(t) /\ (FirstColon(t) = 1 \/ FirstColon(t) > NAME_WIDTH + 1)
    \/ HasColon(t) /\ \A j \in (FirstColon(t) + 1)..Len(t) :
                          ~IsDigit(t[j]) /\ t[j] \notin {"i", "n", "I", "N"}

\* C7: ProcessSerial clears the ready flag before it parses; a run on a
\* malformed text leaves every parameter unchanged; and a recognized command
\* sent after a malformed line is applied.
C7_MalformedDiscarded ==
    /\ [][(pc = "clear" /\ pc' = "scan") => ~new_data_ready']_vars
    /\ [][(ApplyStep /\ Malformed(scanned)) => params' = params]_vars
    /\ [](\A c \in SeqCommands :
            (/\ sent.tag = "seq"
             /\ Malformed(sent.lines[1].text)
             /\ sent.lines[2].text = c.text
             /\ Quiescent) => params[c.field] = Fin(ClampTo(c.val, c.field)))

\* "ch1_gain:abc" has been parsed, one item converted, and discarded.
C7_Witness ==
    /\ sent.tag = "single"
    /\ sent.lines[1].text = <<"c", "h", "1", "_", "g", "a", "i", "n", ":", "a", "b", "c">>
    /\ Quiescent
    /\ last.n = 1
    /\ params = Defaults

\* v hundredths truncated toward zero to a whole number.
TruncToInt(v) == IF v >= 0 THEN v \div SCALE ELSE -((-v) \div SCALE)

\* C8: each filter mode is 0, 1 or 2 in every reachable state; an accepted
\* filter-mode command with a finite value stores the value truncated to an
\* integer when that is 0, 1 or 2 and otherwise leaves every parameter
\* unchanged.
C8_FilterModeAcceptance ==
    /\ [](params.ch1_filter_mode \in FilterMode /\ params.ch2_filter_mode \in FilterMode)
    /\ [][(/\ ApplyStep
           /\ last'.n = 2
           /\ last'.row > 0
           /\ ParamTable[last'.row].mode
           /\ last'.val.k = "fin"
           /\ last'.val.v < SatCap
           /\ last'.val.v > -SatCap) =>
              params' = IF TruncToInt(last'.val.v) \in {0, 1, 2}
                        THEN [params EXCEPT ![ParamTable[last'.row].field] = TruncToInt(last'.val.v)]
                        ELSE params]_vars

\* "ch1_filter_mode:2.9" has been applied: the mode is Highpass.
C8_Witness ==
    /\ pc = "idle"
    /\ last.n = 2
    /\ last.row > 0
    /\ ParamTable[last.row].field = "ch1_filter_mode"
    /\ last.val = Fin(290)
    /\ params.ch1_filter_mode = HIGHPASS

\* The sample in progress has been written to out.
Written == blk.i >= 1 /\ apc \in {"read", "idle"}

\* C9: every sample written to either output channel is finite and within
\* [-1, 1], whatever the inputs, the in-range parameters and the values the
\* primitives and the mixer hand on; and where master gain and soft clip
\* give a non-finite result, 0.0 is written.
C9_FiniteOutput ==
    \A j \in 1..2 :
        /\ out[j].k = "fin"
        /\ out[j].v >= -SCALE
        /\ out[j].v <= SCALE
        /\ (Written /\ ~IsFinite(MySoftClip(FMul(mixed[j], params.master_gain)))) => out[j] = Zero

\* The mixer handed a NaN to the output stage, which wrote 0.0.
C9_Witness ==
    /\ Written
    /\ IsNaN(mixed[1])
    /\ ~IsFinite(MySoftClip(FMul(mixed[1], params.master_gain)))
    /\ out[1] = Zero

\* C10 as stated: with cross_bleed = 0 and stereo_width = 1.0 the pair the
\* mixer leaves equals the pair the channel pipelines left.
C10_WidthIdentity ==
    (apc = "out" /\ params.cross_bleed = Zero /\ params.stereo_width = One) => mixed = piped

\* C10: with cross_bleed = 0, stereo_width = 1.0 and reverb_mix = 0, for
\* finite pipeline outputs whose sum and difference are halved without
\* rounding and without overflow, the pair the mixer leaves equals the pair
\* the channel pipelines left.
C10_WidthIdentityExact ==
    (/\ apc = "out"
     /\ params.cross_bleed = Zero
     /\ params.stereo_width = One
     /\ params.reverb_mix = Zero
     /\ IsFinite(piped[1])
     /\ IsFinite(piped[2])
     /\ (piped[1].v + piped[2].v) % 2 = 0
     /\ Abs(piped[1].v) + Abs(piped[2].v) < SatCap) => mixed = piped

\* The mixer has run at unity width on the pair (0.4, -3.0).
C10_Witness ==
    /\ apc = "out"
    /\ params.cross_bleed = Zero
    /\ params.stereo_width = One
    /\ params.reverb_mix = Zero
    /\ piped = <<Fin(40), Fin(-300)>>
    /\ mixed = piped

\* What c, the calls of a channel's stage on the sample in progress, and d,
\* the channel's delay line after them, show of the delay stage under the
\* channel parameters cp.
DryPass(c, cp, d) ==
    /\ Len(c.dwrite) = 1
    /\ (~FGt(cp.dmix, Zero) =>
            /\ c.dwrite[1] = c.post
            /\ c.dout = c.post
            /\ c.dread = <<>>)
    /\ (d.known /\ d.nwet = 1 /\ c.dread # <<>> =>
            c.dread[1].val \in d.dry \cup {Zero})

FilteredOnce(c, cp) ==
    /\ Len(c.filter) = 1
    /\ cp.mode \in FilterMode
    /\ c.post = c.outs[cp.mode + 1]

\* The filter calls of a channel stage on the inputs it had are the calls it
\* makes in each filter mode.
ModeBlind(c, cp, other_in) ==
    \A m \in FilterMode :
        FilterStage([cp EXCEPT !.mode = m], other_in, c.filter[1].in, c.outs).calls = c.filter

\* C12: on every sample each channel sets up and runs its filter exactly once
\* in every filter mode, and the channel sample is the low, band or high
\* output the mode selects; the cutoff, resonance and input the filter is
\* driven with are those it is driven with in each other mode.
C12_FilterModeExclusivity ==
    /\ [](apc = "ch2" => FilteredOnce(calls1, Chan1))
    /\ [](apc = "mix" => FilteredOnce(calls2, Chan2))
    /\ [][apc = "ch1" /\ apc' = "ch2" => ModeBlind(calls1', Chan1, ch2_in)]_vars
    /\ [][apc = "ch2" /\ apc' = "mix" => ModeBlind(calls2', Chan2, ch1_in)]_vars

\* Channel 1 in high-pass mode has run its filter once and taken the high
\* output, which differs from the low and the band output.
C12_Witness ==
    /\ apc = "ch2"
    /\ params.ch1_filter_mode = HIGHPASS
    /\ Len(calls1.filter) = 1
    /\ calls1.post = calls1.outs[3]
    /\ calls1.outs[3] # calls1.outs[1]
    /\ calls1.outs[3] # calls1.outs[2]

\* A step of AudioCallback, of UsbCallback, of ProcessSerial.
AudioStep == apc' # apc
ReceiveStep == wire' # wire
SerialStep == pc' # pc \/ scan_i' # scan_i

\* C13: the audio callback writes no parameter and neither the command
\* buffer, the cursor nor the ready flag; the receive handler writes the
\* buffer, the cursor and the flag and no parameter; a parameter changes only
\* in ProcessSerial, which leaves the buffer and the cursor alone and does
\* nothing to the flag but clear it.
C13_AccessDiscipline ==
    [][/\ (AudioStep => UNCHANGED <<params, serial_buf, buf_pos, new_data_ready>>)
       /\ (ReceiveStep => UNCHANGED <<params, ch1_in, ch2_in, ch1, ch2, out, del1, del2>>)
       /\ (params' # params => SerialStep /\ ~AudioStep /\ ~ReceiveStep)
       /\ (SerialStep => /\ UNCHANGED <<serial_buf, buf_pos>>
                         /\ (new_data_ready' # new_data_ready => ~new_data_ready'))]_vars

\* The three handlers have all run: a command was received and applied and
\* the audio callback is at work on a sample, the cursor being off 0.
C13_Witness ==
    /\ params # Defaults
    /\ commits # {}
    /\ apc = "out"
    /\ buf_pos > 0

\* The sample in progress has passed the mixer.
Mixed == apc = "out"

\* C14: with cross_bleed above 0 the bleed stage turns the pair (a, b) the
\* channel stages left into ((1-bleed)*a + bleed*b, (1-bleed)*b + bleed*a),
\* both from a and b as they were before the stage; with cross_bleed 0 it
\* leaves the pair as it is.
C14_SimultaneousBleed ==
    Mixed =>
        IF FGt(params.cross_bleed, Zero)
        THEN /\ bled[1] = FAdd(FMul(piped[1], FSub(One, params.cross_bleed)),
                               FMul(piped[2], params.cross_bleed))
             /\ bled[2] = FAdd(FMul(piped[2], FSub(One, params.cross_bleed)),
                               FMul(piped[1], params.cross_bleed))
        ELSE bled = piped

\* A bleed of one half on two different finite samples, which has changed
\* both.
C14_Witness ==
    /\ Mixed
    /\ params.cross_bleed = Half
    /\ IsFinite(piped[1]) /\ IsFinite(piped[2])
    /\ piped[1] # piped[2]
    /\ bled[1] # piped[1]
    /\ bled[2] # piped[2]
    /\ IsFinite(bled[1]) /\ IsFinite(bled[2])

\* The cutoff range, in hundredths of a Hz.
CutoffMin == 20 * SCALE
CutoffMax == 20000 * SCALE

\* other_in * cross_mod * 5000 in hundredths of a Hz, the two being finite.
Modulation(other_in, cross) == TruncDiv(other_in.v * cross.v, SCALE) * CROSS_MOD_FREQ_RANGE

\* What c, the calls of a channel's stage, shows of the cutoff under the
\* channel parameters cp, other_in being the other channel's input sample.
CutoffOk(c, cp, other_in) ==
    /\ Len(c.filter) = 1
    /\ IsFinite(c.filter[1].freq)
    /\ c.filter[1].freq.v \in CutoffMin..CutoffMax
    /\ IF cp.cross.v = 0
       THEN c.filter[1].freq = cp.freq
       ELSE c.filter[1].freq.v =
                Max2(CutoffMin, Min2(cp.freq.v + Modulation(other_in, cp.cross), CutoffMax))

\* C15: the cutoff each channel sets on its filter is finite and within
\* [20, 20000] Hz on every sample; it is the stored filter_freq when
\* cross_mod_amt is 0 and else filter_freq + other_in * cross_mod_amt * 5000
\* clamped to that range, other_in being the other channel's input sample
\* as read and validated, before any processing.
C15_CutoffInvariant ==
    /\ [][apc = "ch1" /\ apc' = "ch2" => CutoffOk(calls1', Chan1, ch2_in)]_vars
    /\ [][apc = "ch2" /\ apc' = "mix" => CutoffOk(calls2', Chan2, ch1_in)]_vars

\* Channel 1's modulated cutoff fell below 20 Hz and was set to 20 Hz.
C15_Witness ==
    /\ apc = "ch2"
    /\ FGt(params.cross_mod_amt, Zero)
    /\ params.ch1_filter_freq.v + Modulation(ch2_in, params.cross_mod_amt) < CutoffMin
    /\ Len(calls1.filter) = 1
    /\ calls1.filter[1].freq = Fin(CutoffMin)

\* The bytes a step of UsbCallback takes off the wire.
Delivered == SubSeq(wire, 1, Len(wire) - Len(wire'))

\* A step of UsbCallback that receives a terminator.
CommitStep == ReceiveStep /\ \E k \in 1..Len(Delivered) : IsTerminator(Delivered[k])

\* The order of ProcessSerial's steps: the test of the flag, the clear, the
\* parse, the return.
RunOrder == {<<"idle", "clear">>, <<"clear", "scan">>, <<"scan", "apply">>, <<"apply", "idle">>}

\* C16: ProcessSerial clears the ready flag before it parses and never
\* after: a terminator sets the flag, nothing but a terminator sets it and
\* nothing but the clear at the start of a run of ProcessSerial resets it,
\* so a commit made after that clear leaves the flag set when the run
\* returns, and the next poll parses again; a run starts only on a set flag
\* and parses once.
C16_ClearBeforeParse ==
    /\ [][CommitStep => new_data_ready']_vars
    /\ [][~new_data_ready /\ new_data_ready' => CommitStep]_vars
    /\ [][new_data_ready /\ ~new_data_ready' => pc = "clear" /\ pc' = "scan"]_vars
    /\ [][pc' # pc => /\ <<pc, pc'>> \in RunOrder
                      /\ (pc = "idle" => new_data_ready)
                      /\ (pc = "clear" => ~new_data_ready')]_vars
    /\ ((new_data_ready /\ pc \in {"scan", "apply"}) ~> (pc = "clear"))

\* A command was committed while ProcessSerial was parsing: the flag is set
\* again before the run has returned.
C16_Witness ==
    /\ pc \in {"scan", "apply"}
    /\ new_data_ready
    /\ Cardinality(commits) >= 2

\* The indices of serial_buf.
BufIndex == 0..(SERIAL_BUF_SIZE - 1)

\* A step of UsbCallback on one byte.
OneByteStep == ReceiveStep /\ Len(Delivered) = 1

\* C17: the cursor is an index of the 128-byte buffer in every state and a
\* received byte changes the buffer at the cursor's index or nowhere; a
\* byte that is no terminator and arrives with the cursor at 127 is dropped,
\* the cursor going to 0 and the ready flag staying as it is; the buffer's
\* last byte is NUL in every state, and the parser's read index stays inside
\* the buffer.
C17_BufferBounds ==
    /\ [](buf_pos \in BufIndex)
    /\ [](DOMAIN serial_buf = BufIndex /\ serial_buf[SERIAL_BUF_SIZE - 1] = NUL)
    /\ [](pc = "scan" => scan_i \in BufIndex)
    /\ [][OneByteStep =>
             \A i \in BufIndex : i # buf_pos => serial_buf'[i] = serial_buf[i]]_vars
    /\ [][OneByteStep /\ buf_pos = SERIAL_BUF_SIZE - 1 /\ ~IsTerminator(Delivered[1]) =>
             /\ buf_pos' = 0
             /\ serial_buf' = serial_buf
             /\ new_data_ready' = new_data_ready]_vars

\* 128 bytes without a terminator have arrived: the 128th was dropped, the
\* cursor is back at 0, the flag is down and nothing is committed.
C17_Witness ==
    /\ sent.tag = "overflow"
    /\ Len(wire) = Len(Bytes(sent.lines, 1)) - SERIAL_BUF_SIZE
    /\ buf_pos = 0
    /\ ~new_data_ready
    /\ commits = {}
    /\ serial_buf[SERIAL_BUF_SIZE - 2] = "x"
    /\ serial_buf[SERIAL_BUF_SIZE - 1] = NUL

Ch1Fields == {"ch1_gain", "ch1_drive", "ch1_filter_freq", "ch1_filter_res",
              "ch1_filter_mode", "ch1_delay_time", "ch1_delay_feedback",
              "ch1_delay_mix", "ch1_chorus_depth", "ch1_chorus_rate"}
Ch2Fields == {"ch2_gain", "ch2_drive", "ch2_filter_freq", "ch2_filter_res",
              "ch2_filter_mode", "ch2_delay_time", "ch2_delay_feedback",
              "ch2_delay_mix", "ch2_chorus_depth", "ch2_chorus_rate"}
SharedFields == DOMAIN Defaults \ (Ch1Fields \cup Ch2Fields)

\* The name of the command t: the text before its first ':'.
CmdName(t) == SubSeq(t, 1, FirstColon(t) - 1)

\* The fields a command of that name may write.
FieldGroup(name) ==
    IF StrCmpPrefix(<<"c", "h", "1", "_">>, name) THEN Ch1Fields
    ELSE IF StrCmpPrefix(<<"c", "h", "2", "_">>, name) THEN Ch2Fields
    ELSE SharedFields

\* The field the table gives for that name.
FieldNamed(name) ==
    ParamTable[CHOOSE i \in 1..Len(ParamTable) : ParamTable[i].name = name].field

\* A run of ProcessSerial ends that has parsed a name and a value, the name
\* being one of the recognized names.
RecognizedStep ==
    /\ ApplyStep
    /\ last'.n = 2
    /\ HasColon(scanned)
    /\ CmdName(scanned) \in RecognizedNames

\* The step changes no field but the one its command names, which is of the
\* command's channel or shared.
OtherFieldsKept ==
    /\ \A f \in DOMAIN Defaults \ {FieldNamed(CmdName(scanned))} : params'[f] = params[f]
    /\ FieldNamed(CmdName(scanned)) \in FieldGroup(CmdName(scanned))
    /\ (CmdName(scanned) = <<"c", "h", "1", "_", "d", "e", "l", "a", "y", "_", "f", "b">> =>
            FieldNamed(CmdName(scanned)) = "ch1_delay_feedback")
    /\ (CmdName(scanned) = <<"c", "h", "2", "_", "d", "e", "l", "a", "y", "_", "f", "b">> =>
            FieldNamed(CmdName(scanned)) = "ch2_delay_feedback")

\* C18 as stated: a run of ProcessSerial on a recognized command makes
\* exactly one store, to the field the command names, and leaves every other
\* field unchanged.
C18_SingleFieldWrite == [][RecognizedStep => last'.stored = 1 /\ OtherFieldsKept]_vars

\* C18, amended: a run of ProcessSerial on a recognized command makes at
\* most one store, to the field the command names, and leaves every other
\* field unchanged; it makes one store but for a filter-mode command, which
\* makes one when its finite value truncates to 0, 1 or 2 and none when it
\* truncates to another integer.
C18_AtMostOneField ==
    [][RecognizedStep =>
          /\ OtherFieldsKept
          /\ last'.stored \in {0, 1}
          /\ (FieldNamed(CmdName(scanned)) \notin ModeFields => last'.stored = 1)
          /\ (/\ FieldNamed(CmdName(scanned)) \in ModeFields
              /\ last'.val.k = "fin"
              /\ last'.val.v < SatCap
              /\ last'.val.v > -SatCap) =>
                 last'.stored = (IF TruncToInt(last'.val.v) \in {0, 1, 2} THEN 1 ELSE 0)]_vars

\* "ch2_delay_fb:0.5" has been applied: channel 2's delay feedback is 0.5
\* and every other parameter is at its default.
C18_Witness ==
    /\ pc = "idle"
    /\ last.n = 2
    /\ last.stored = 1
    /\ last.row > 0
    /\ ParamTable[last.row].field = "ch2_delay_feedback"
    /\ params = [Defaults EXCEPT !.ch2_delay_feedback = Fin(50)]

\* C19: the offset each channel hands to its delay line's Read is below the
\* line's capacity MAX_DELAY_SAMPLES, for every delay_time the parameter
\* store can hold.
C19_DelayOffsetBound ==
    /\ (apc = "ch2" /\ calls1.dread # <<>> => calls1.dread[1].offset < MAX_DELAY_SAMPLES)
    /\ (apc = "mix" /\ calls2.dread # <<>> => calls2.dread[1].offset < MAX_DELAY_SAMPLES)

====
